---------------------------- MODULE Spec2Model ----------------------------
(***************************************************************************)
(* A model of make_profiler/lint_makefile.py: the line-provenance scan     *)
(* (_compute_target_lines), the target model builder (parse_targets), the  *)
(* validators, the orchestrator (validate) and the summary reporter        *)
(* (summarize_errors).                                                     *)
(*                                                                         *)
(* Python strings are sequences of one-character strings, so that strip,   *)
(* split, startswith, endswith, the `in` test and the header regex are     *)
(* computed character by character.  An Optional value is <<>> (None) or   *)
(* <<v>>.  Python line numbers are 0-based; sequences here are 1-based, so *)
(* line number k is lines[k + 1].                                          *)
(***************************************************************************)
EXTENDS Integers, Sequences, FiniteSets, TLC

VARIABLES
    lines,      \* makefile_lines: the raw source lines
    scan,       \* locals of _compute_target_lines: pc, i, mapping, stripped
    sp,         \* locals of validate_spaces: pc, i, prev_line, errors, is_valid
    ast,        \* the parser's rule-token stream
    root_dir,   \* the root the filesystem probes resolve against
    fs,         \* the filesystem: [exists: set of paths, dirs: set of paths]
    model,      \* parse_targets' result: targets, deps, deps_iter, deps_map
    errors,     \* the shared findings list handed to validate
    is_valid,   \* validate's running verdict
    pc,         \* position of main / validate
    summary     \* summarize_errors' result (None until computed)

vars == <<lines, scan, sp, ast, root_dir, fs, model, errors, is_valid, pc, summary>>

-----------------------------------------------------------------------------
(* Optional values and small helpers                                       *)

None == <<>>

Some(v) == <<v>>

Min(S) == CHOOSE x \in S : \A y \in S : x <= y

Range(s) == {s[k] : k \in 1..Len(s)}

EmptyMap == [x \in {} |-> None]

-----------------------------------------------------------------------------
(* Python str operations                                                   *)

\* The characters str.strip / str.rstrip / str.split treat as whitespace
\* (of the characters the model's lines are written with).
Whitespace == {" ", "\t"}

RECURSIVE RStrip(_)
RStrip(s) ==
    IF s = <<>> THEN s
    ELSE IF s[Len(s)] \in Whitespace THEN RStrip(SubSeq(s, 1, Len(s) - 1))
    ELSE s

RECURSIVE LStrip(_)
LStrip(s) ==
    IF s = <<>> THEN s
    ELSE IF Head(s) \in Whitespace THEN LStrip(Tail(s))
    ELSE s

Strip(s) == LStrip(RStrip(s))

StartsWith(s, p) == Len(s) >= Len(p) /\ SubSeq(s, 1, Len(p)) = p

EndsWith(s, p) == Len(s) >= Len(p) /\ SubSeq(s, Len(s) - Len(p) + 1, Len(s)) = p

\* p in s, for strings
Contains(s, p) ==
    \E k \in 0..(Len(s) - Len(p)) : SubSeq(s, k + 1, k + Len(p)) = p

\* c in s, for one character
HasChar(s, c) == \E k \in 1..Len(s) : s[k] = c

RECURSIVE SplitFrom(_, _, _)
SplitFrom(s, cur, acc) ==
    IF s = <<>> THEN (IF cur = <<>> THEN acc ELSE Append(acc, cur))
    ELSE IF Head(s) \in Whitespace
         THEN SplitFrom(Tail(s), <<>>, IF cur = <<>> THEN acc ELSE Append(acc, cur))
         ELSE SplitFrom(Tail(s), Append(cur, Head(s)), acc)

\* str.split() with no argument
Split(s) == SplitFrom(s, <<>>, <<>>)

\* re.match(r"(?P<target>.+?)(?:&:|:)", line): the lazy group takes the fewest
\* characters, at least one, that are followed by "&:" or ":".  The result is
\* the group's text, or None when the regex does not match.
TargetReMatch(line) ==
    LET ends == {k \in 1..(Len(line) - 1) :
                    \/ line[k + 1] = ":"
                    \/ (k + 2 <= Len(line) /\ line[k + 1] = "&" /\ line[k + 2] = ":")}
    IN  IF ends = {} THEN None ELSE Some(SubSeq(line, 1, Min(ends)))

-----------------------------------------------------------------------------
(* _compute_target_lines: the line-provenance scan                         *)

\* mapping.setdefault(name, (i, line)) for every name, in order
RECURSIVE SetDefaultAll(_, _, _)
SetDefaultAll(mapping, names, entry) ==
    IF names = <<>> THEN mapping
    ELSE SetDefaultAll(
            IF Head(names) \in DOMAIN mapping THEN mapping
            ELSE mapping @@ (Head(names) :> entry),
            Tail(names), entry)

\* A plausible slip: mapping[name] = (i, line), the last declaration wins.
RECURSIVE AssignAll(_, _, _)
AssignAll(mapping, names, entry) ==
    IF names = <<>> THEN mapping
    ELSE AssignAll(
            (Head(names) :> entry) @@ mapping,
            Tail(names), entry)

RecordNames(mapping, names, entry) == SetDefaultAll(mapping, names, entry)

\* The locals on entry to the while loop.
ScanInit == [pc |-> "outer", i |-> 0, mapping |-> EmptyMap, stripped |-> <<>>]

\* The branch the outer loop body takes on lines[i]: "skip" for a blank line, a
\* comment line, a recipe line or a line that is no header candidate, "header"
\* for a line holding ":" and no "=".
LineKind(line) ==
    LET stripped == Strip(line)
    IN  IF stripped = <<>> THEN "skip"
        ELSE IF stripped[1] = "#" /\ ~StartsWith(line, <<"#", "#">>) THEN "skip"
        ELSE IF StartsWith(line, <<"\t">>) THEN "skip"
        ELSE IF HasChar(line, ":") /\ ~HasChar(line, "=") THEN "header"
        ELSE "skip"

\* The names a header line declares: the regex group, split.
HeaderNames(line) ==
    LET m == TargetReMatch(line)
    IN  IF m = None THEN <<>> ELSE Split(m[1])

\* A plausible slip: no inner loop, so the lines continuing a header are
\* scanned as headers themselves.
ScanStepRescan(ls, s) ==
    IF s.pc = "outer" THEN
        IF ~(s.i < Len(ls)) THEN [s EXCEPT !.pc = "done"]
        ELSE LET line == ls[s.i + 1]
             IN  IF LineKind(line) = "header"
                 THEN [s EXCEPT !.i = s.i + 1,
                                !.mapping = RecordNames(s.mapping, HeaderNames(line),
                                                        <<s.i, line>>)]
                 ELSE [s EXCEPT !.i = s.i + 1]
    ELSE s

\* One step of the scan over the line sequence ls from locals s: one test of
\* the outer `while i < n` with the body up to the inner loop, or one test of
\* the inner `while stripped.rstrip().endswith("\\")` with its body.
ScanStep(ls, s) ==
    IF s.pc = "outer" THEN
        IF ~(s.i < Len(ls)) THEN [s EXCEPT !.pc = "done"]
        ELSE LET line == ls[s.i + 1]
             IN  IF LineKind(line) = "header"
                 THEN [pc |-> "inner", i |-> s.i,
                       mapping |-> RecordNames(s.mapping, HeaderNames(line), <<s.i, line>>),
                       stripped |-> Strip(line)]
                 ELSE [s EXCEPT !.i = s.i + 1]
    ELSE IF s.pc = "inner" THEN
        IF EndsWith(RStrip(s.stripped), <<"\\">>)
        THEN IF s.i + 1 >= Len(ls)
             THEN [s EXCEPT !.pc = "done", !.i = s.i + 1]
             ELSE [s EXCEPT !.i = s.i + 1, !.stripped = Strip(ls[s.i + 2])]
        ELSE [s EXCEPT !.pc = "outer", !.i = s.i + 1]
    ELSE s

RECURSIVE ScanRun(_, _)
ScanRun(ls, s) == IF s.pc = "done" THEN s.mapping ELSE ScanRun(ls, ScanStep(ls, s))

_compute_target_lines(ls) == ScanRun(ls, ScanInit)

-----------------------------------------------------------------------------
(* Findings                                                                *)

\* _create_error / LintError.  A message is the tuple of the f-string's
\* literal head and the values it interpolates.
_create_error(error_type, message, line_number, line_text) ==
    [error_type |-> error_type, message |-> message,
     line_number |-> line_number, line_text |-> line_text]

-----------------------------------------------------------------------------
(* validate_spaces                                                         *)

\* The locals before the for loop; errs is the findings list passed in.
SpacesInit(errs) ==
    [pc |-> "loop", i |-> 0, prev_line |-> <<>>, errors |-> errs, is_valid |-> TRUE]

\* A plausible slip: the previous line is not trimmed before the test.
IsContinuedUntrimmed(prev_line) == EndsWith(prev_line, <<"\\">>)

\* prev_line.rstrip().endswith("\\")
IsContinued(prev_line) == EndsWith(RStrip(prev_line), <<"\\">>)

\* One step of the for loop over ls from locals s: the body for line number
\* s.i, or leaving the loop.
SpacesStep(ls, s) ==
    IF s.pc # "loop" THEN s
    ELSE IF ~(s.i < Len(ls)) THEN [s EXCEPT !.pc = "done"]
    ELSE LET line == ls[s.i + 1]
             trailing == RStrip(line) # line
             e1 == IF trailing
                   THEN <<_create_error("trailing spaces",
                                        <<"Trailing spaces", s.i, line>>,
                                        Some(s.i), Some(line))>>
                   ELSE <<>>
             space == /\ ~IsContinued(s.prev_line)
                      /\ StartsWith(line, <<" ">>)
                      /\ ~StartsWith(line, <<"\t">>)
             e2 == IF space
                   THEN <<_create_error("space instead of tab",
                                        <<"Space instead of tab", s.i, line>>,
                                        Some(s.i), Some(line))>>
                   ELSE <<>>
         IN  [pc |-> "loop", i |-> s.i + 1, prev_line |-> line,
              errors |-> s.errors \o e1 \o e2,
              is_valid |-> s.is_valid /\ ~trailing /\ ~space]

RECURSIVE SpacesRun(_, _)
SpacesRun(ls, s) == IF s.pc = "done" THEN s ELSE SpacesRun(ls, SpacesStep(ls, s))

\* validate_spaces(lines, errors=errs): the verdict and the findings list after
validate_spaces(ls, errs) ==
    LET s == SpacesRun(ls, SpacesInit(errs))
    IN  [is_valid |-> s.is_valid, errors |-> s.errors]

-----------------------------------------------------------------------------
(* parse_targets: the target model builder                                 *)

\* dict.get(key, default) for an optional key of a token's data
GetOr(opt, default) == IF opt = None THEN default ELSE opt[1]

\* line_map.get(name, (None, None))
LineMapGet(line_map, name) ==
    IF name \in DOMAIN line_map
    THEN <<Some(line_map[name][1]), Some(line_map[name][2])>>
    ELSE <<None, None>>

\* names = data.get("all_targets", [data["target"]])
TokenNames(data) == GetOr(data.all_targets, <<data.target>>)

\* A plausible slip: only the nominal name gets a record.
TokenRecordsNominalOnly(data, line_map) ==
    LET p == LineMapGet(line_map, data.target)
    IN  <<[name |-> data.target, doc |-> data.docs,
           line_number |-> p[1], line_text |-> p[2],
           grouped |-> GetOr(data.grouped, FALSE),
           deps |-> data.deps[1], order_only_deps |-> data.deps[2]]>>

\* The TargetData records one target token appends: one per name, in order.
TokenRecords(data, line_map) ==
    LET names == TokenNames(data)
    IN  [k \in 1..Len(names) |->
            LET p == LineMapGet(line_map, names[k])
            IN  [name |-> names[k], doc |-> data.docs,
                 line_number |-> p[1], line_text |-> p[2],
                 grouped |-> GetOr(data.grouped, FALSE),
                 deps |-> data.deps[1], order_only_deps |-> data.deps[2]]]

\* The prerequisite names of one token: both arrays of data["deps"], flattened.
TokenDeps(data) == Range(data.deps[1]) \cup Range(data.deps[2])

\* deps_map after one token: deps_map[item].add(name) for every item and name.
\* With no name the defaultdict is never indexed, so item gets no key.
AddEdges(deps_map, data) ==
    LET names == Range(TokenNames(data))
        items == IF names = {} THEN {} ELSE TokenDeps(data)
    IN  [item \in DOMAIN deps_map \cup items |->
            (IF item \in DOMAIN deps_map THEN deps_map[item] ELSE {})
            \cup (IF item \in items THEN names ELSE {})]

RECURSIVE ParseFrom(_, _, _)
ParseFrom(tokens, line_map, acc) ==
    IF tokens = <<>> THEN acc
    ELSE LET token_type == Head(tokens)[1]
             data == Head(tokens)[2]
         IN  IF token_type # "target" THEN ParseFrom(Tail(tokens), line_map, acc)
             ELSE ParseFrom(Tail(tokens), line_map,
                    [targets |-> acc.targets \o TokenRecords(data, line_map),
                     deps |-> acc.deps \cup TokenDeps(data),
                     deps_map |-> AddEdges(acc.deps_map, data)])

\* parse_targets(ast, lines): target_data, deps_targets, deps_map
parse_targets(tokens, ls) ==
    LET line_map == IF ls # <<>> THEN _compute_target_lines(ls) ELSE EmptyMap
    IN  ParseFrom(tokens, line_map,
                  [targets |-> <<>>, deps |-> {}, deps_map |-> EmptyMap])

-----------------------------------------------------------------------------
(* Filesystem probes                                                       *)

\* os.path.isabs
IsAbs(path) == StartsWith(path, <<"/">>)

\* os.path.join(root, path) for a relative path
PathJoin(root, path) ==
    IF EndsWith(root, <<"/">>) THEN root \o path ELSE root \o <<"/">> \o path

_resolve_filesystem_path(path, root) ==
    IF root = <<>> \/ IsAbs(path) THEN path ELSE PathJoin(root, path)

\* os.path.exists and os.path.isdir on filesystem f
PathExists(f, path) == path \in f.exists

IsDir(f, path) == path \in f.dirs

MetaChars == {"$", "*", "?", "[", "]", "%", "(", ")"}

_looks_like_directory(path, root, f) ==
    IF path = <<>> \/ (\E c \in MetaChars : HasChar(path, c)) THEN FALSE
    ELSE IsDir(f, _resolve_filesystem_path(path, root))

-----------------------------------------------------------------------------
(* sorted() on names                                                       *)

\* Code points of the characters names are written with.
CharCode ==
    ("#" :> 35) @@ ("&" :> 38) @@ ("*" :> 42) @@ ("/" :> 47) @@ (":" :> 58)
    @@ ("a" :> 97) @@ ("b" :> 98) @@ ("c" :> 99) @@ ("d" :> 100) @@ ("m" :> 109)

RECURSIVE StrLess(_, _)
StrLess(x, y) ==
    IF y = <<>> THEN FALSE
    ELSE IF x = <<>> THEN TRUE
    ELSE IF Head(x) = Head(y) THEN StrLess(Tail(x), Tail(y))
    ELSE CharCode[Head(x)] < CharCode[Head(y)]

RECURSIVE Sorted(_)
Sorted(S) ==
    IF S = {} THEN <<>>
    ELSE LET least == CHOOSE x \in S : \A y \in S \ {x} : StrLess(x, y)
         IN  <<least>> \o Sorted(S \ {least})

-----------------------------------------------------------------------------
(* The target-level validators.  Each takes the findings list passed in    *)
(* and yields the verdict and the list after its appends.                  *)

RECURSIVE CommentsFrom(_, _)
CommentsFrom(targets, acc) ==
    IF targets = <<>> THEN acc
    ELSE LET t == Head(targets)
         IN  CommentsFrom(Tail(targets),
                IF t.doc = <<>>
                THEN [is_valid |-> FALSE,
                      errors |-> Append(acc.errors,
                          _create_error("target without comments",
                                        <<"Target without comments", t.name>>,
                                        t.line_number, t.line_text))]
                ELSE acc)

validate_target_comments(targets, errs) ==
    CommentsFrom(targets, [is_valid |-> TRUE, errors |-> errs])

FINAL == <<"[", "F", "I", "N", "A", "L", "]">>

\* A plausible slip: the documentation must equal the marker.
IsOrphanUnlessDocIsMarker(t, deps) == t.name \notin deps /\ t.doc # FINAL

\* The test validate_orphan_targets makes on one record.
IsOrphan(t, deps) == t.name \notin deps /\ ~Contains(t.doc, FINAL)

RECURSIVE OrphanFrom(_, _, _)
OrphanFrom(targets, deps, acc) ==
    IF targets = <<>> THEN acc
    ELSE LET t == Head(targets)
         IN  OrphanFrom(Tail(targets), deps,
                IF IsOrphan(t, deps)
                THEN [is_valid |-> FALSE,
                      errors |-> Append(acc.errors,
                          _create_error("orphan target",
                                        <<"is orphan", t.name>>,
                                        t.line_number, t.line_text))]
                ELSE acc)

validate_orphan_targets(targets, deps, errs) ==
    OrphanFrom(targets, deps, [is_valid |-> TRUE, errors |-> errs])

\* target_map = {t.name: t for t in targets}: the last record of a name wins
TargetMap(targets) ==
    [n \in {targets[k].name : k \in 1..Len(targets)} |->
        targets[CHOOSE k \in 1..Len(targets) :
                    /\ targets[k].name = n
                    /\ \A j \in (k + 1)..Len(targets) : targets[j].name # n]]

\* The findings for one missing dep: one per parent in sorted(deps_map.get(dep, []))
MissingFindings(dep, parents, target_map) ==
    [k \in 1..Len(parents) |->
        LET known == parents[k] \in DOMAIN target_map
        IN  _create_error("missing rule",
                          <<"No rule to make target", dep, parents[k]>>,
                          IF known THEN target_map[parents[k]].line_number ELSE None,
                          IF known THEN target_map[parents[k]].line_text ELSE None)]

\* A plausible slip: one finding per missing dep, for its first requester only.
MissingParentsFirstOnly(deps_map, dep) ==
    IF dep \in DOMAIN deps_map /\ deps_map[dep] # {}
    THEN <<Sorted(deps_map[dep])[1]>>
    ELSE <<>>

\* sorted(deps_map.get(dep, []))
MissingParents(deps_map, dep) ==
    IF dep \in DOMAIN deps_map THEN Sorted(deps_map[dep]) ELSE <<>>

\* deps_iter is the set deps in the order the for loop visits it.
RECURSIVE MissingFrom(_, _, _, _, _, _)
MissingFrom(deps_iter, target_map, deps_map, root, f, acc) ==
    IF deps_iter = <<>> THEN acc
    ELSE LET dep == Head(deps_iter)
             candidate == _resolve_filesystem_path(dep, root)
         IN  MissingFrom(Tail(deps_iter), target_map, deps_map, root, f,
                IF dep \notin DOMAIN target_map /\ ~PathExists(f, candidate)
                THEN [is_valid |-> FALSE,
                      errors |-> acc.errors \o
                          MissingFindings(dep, MissingParents(deps_map, dep), target_map)]
                ELSE acc)

validate_missing_rules(targets, deps_iter, deps_map, root, f, errs) ==
    MissingFrom(deps_iter, TargetMap(targets), deps_map, root, f,
                [is_valid |-> TRUE, errors |-> errs])

\* A plausible slip: the grouped flag is not consulted.
SharesRuleIgnoringGrouped(t) ==
    /\ t.line_text # None
    /\ LET m == TargetReMatch(t.line_text[1])
       IN  m # None /\ Len(Split(m[1])) > 1

\* The test validate_multiple_targets_colon makes on one record.
SharesRuleWithoutGrouping(t) ==
    /\ ~(t.grouped \/ t.line_text = None)
    /\ LET m == TargetReMatch(t.line_text[1])
       IN  m # None /\ Len(Split(m[1])) > 1

RECURSIVE MultiFrom(_, _)
MultiFrom(targets, acc) ==
    IF targets = <<>> THEN acc
    ELSE LET t == Head(targets)
         IN  MultiFrom(Tail(targets),
                IF SharesRuleWithoutGrouping(t)
                THEN [is_valid |-> FALSE,
                      errors |-> Append(acc.errors,
                          _create_error("multiple targets with colon",
                                        <<"Multiple targets defined with ':'",
                                          TargetReMatch(t.line_text[1])[1]>>,
                                        t.line_number, t.line_text))]
                ELSE acc)

validate_multiple_targets_colon(targets, errs) ==
    MultiFrom(targets, [is_valid |-> TRUE, errors |-> errs])

\* A plausible slip: the order-only list is not consulted.
RECURSIVE DirFindingsAllDeps(_, _, _, _)
DirFindingsAllDeps(t, deps_list, root, f) ==
    IF deps_list = <<>> THEN <<>>
    ELSE LET dep == Head(deps_list)
             rest == DirFindingsAllDeps(t, Tail(deps_list), root, f)
         IN  IF ~_looks_like_directory(dep, root, f) THEN rest
             ELSE <<_create_error("directory dependency not order-only",
                                  <<"Directory dependency", dep, t.name>>,
                                  t.line_number, t.line_text)>> \o rest

\* The findings of one record: one per dep of t.deps, in order, that is not in
\* t.order_only_deps and looks like a directory.
RECURSIVE DirFindings(_, _, _, _)
DirFindings(t, deps_list, root, f) ==
    IF deps_list = <<>> THEN <<>>
    ELSE LET dep == Head(deps_list)
             rest == DirFindings(t, Tail(deps_list), root, f)
         IN  IF dep \in Range(t.order_only_deps) THEN rest
             ELSE IF ~_looks_like_directory(dep, root, f) THEN rest
             ELSE <<_create_error("directory dependency not order-only",
                                  <<"Directory dependency", dep, t.name>>,
                                  t.line_number, t.line_text)>> \o rest

RECURSIVE DirFrom(_, _, _, _)
DirFrom(targets, root, f, acc) ==
    IF targets = <<>> THEN acc
    ELSE LET found == DirFindings(Head(targets), Head(targets).deps, root, f)
         IN  DirFrom(Tail(targets), root, f,
                [is_valid |-> acc.is_valid /\ found = <<>>,
                 errors |-> acc.errors \o found])

validate_directory_order_only_dependencies(targets, root, f, errs) ==
    DirFrom(targets, root, f, [is_valid |-> TRUE, errors |-> errs])

-----------------------------------------------------------------------------
(* summarize_errors                                                        *)

\* sys.maxsize, the sort key of a category no finding of which has a line
\* number; here the largest integer of the checker, above every line number.
sys_maxsize == 2147483647

\* The keys of collections.Counter(err.error_type for err in errors): the
\* categories in order of first appearance.
RECURSIVE CounterKeys(_, _)
CounterKeys(errs, acc) ==
    IF errs = <<>> THEN acc
    ELSE CounterKeys(Tail(errs),
            IF Head(errs).error_type \in Range(acc) THEN acc
            ELSE Append(acc, Head(errs).error_type))

\* counts[name]
CounterCount(errs, name) ==
    Cardinality({j \in 1..Len(errs) : errs[j].error_type = name})

\* A plausible slip: first_seen is overwritten, so the last numbered finding
\* of a category sets its key.
RECURSIVE LastSeen(_, _)
LastSeen(errs, acc) ==
    IF errs = <<>> THEN acc
    ELSE LET err == Head(errs)
         IN  LastSeen(Tail(errs),
                IF err.line_number # None
                THEN (err.error_type :> err.line_number[1]) @@ acc
                ELSE acc)

\* first_seen after the loop, from first_seen = acc
RECURSIVE FirstSeen(_, _)
FirstSeen(errs, acc) ==
    IF errs = <<>> THEN acc
    ELSE LET err == Head(errs)
         IN  FirstSeen(Tail(errs),
                IF err.error_type \notin DOMAIN acc /\ err.line_number # None
                THEN acc @@ (err.error_type :> err.line_number[1])
                ELSE acc)

\* order(key) = first_seen.get(key, sys.maxsize)
OrderKey(first_seen, key) ==
    IF key \in DOMAIN first_seen THEN first_seen[key] ELSE sys_maxsize

\* sorted(keys, key=order): a stable sort, by insertion after every element
\* whose key is not larger.
RECURSIVE SortedByOrder(_, _, _)
SortedByOrder(keys, first_seen, acc) ==
    IF keys = <<>> THEN acc
    ELSE LET x == Head(keys)
             before == {k \in 1..Len(acc) :
                          OrderKey(first_seen, acc[k]) <= OrderKey(first_seen, x)}
             n == Cardinality(before)
         IN  SortedByOrder(Tail(keys), first_seen,
                SubSeq(acc, 1, n) \o <<x>> \o SubSeq(acc, n + 1, Len(acc)))

Digits == <<"0", "1", "2", "3", "4", "5", "6", "7", "8", "9">>

\* str(n) for n >= 0, as its digit characters
RECURSIVE ToDecimal(_)
ToDecimal(n) ==
    IF n < Len(Digits) THEN <<Digits[n + 1]>>
    ELSE ToDecimal(n \div Len(Digits)) \o <<Digits[(n % Len(Digits)) + 1]>>

\* ", ".join(f"{name}: {counts[name]}" for name in names), as the sequence of
\* the pieces the string is made of: a category, ": ", the digits, ", ".
RECURSIVE JoinParts(_, _)
JoinParts(names, errs) ==
    IF names = <<>> THEN <<>>
    ELSE <<Head(names), ": ">> \o ToDecimal(CounterCount(errs, Head(names)))
         \o (IF Tail(names) = <<>> THEN <<>> ELSE <<", ">> \o JoinParts(Tail(names), errs))

summarize_errors(errs) ==
    JoinParts(SortedByOrder(CounterKeys(errs, <<>>), FirstSeen(errs, EmptyMap), <<>>), errs)

-----------------------------------------------------------------------------
(* Inputs of the text-level specifications                                 *)

\* The longest line sequence the text-level specifications draw.
MaxLines == 3

\* Lines exercising every branch of the scan and of validate_spaces.
L_a == <<"a", ":">>                                  \* a:
L_b_a == <<"b", ":", " ", "a">>                      \* b: a
L_ab == <<"a", " ", "b", ":", " ", "c">>             \* a b: c
L_grouped == <<"b", " ", "c", "&", ":", " ", "a">>   \* b c&: a
L_cont == <<"a", ":", " ", "b", "\\">>               \* a: b\       (continued)
L_cont_ws == <<" ", "c", ":", "\\", " ">>            \*  c:\ + trailing space
L_recipe == <<"\t", "b", ":">>                       \* <tab>b:
L_comment == <<" ", "#", "b", ":">>                  \*  #b:
L_doc == <<"#", "#", " ", "c", ":">>                 \* ## c:
L_assign == <<"c", ":", "=", "a">>                   \* c:=a
L_blank == <<" ">>                                   \* whitespace only
L_colon == <<":", "b", ":">>                         \* :b:
L_indent == <<" ", " ", "b">>                        \*   b
L_tab_ws == <<"\t", "a", "\t">>                      \* <tab>a<tab>

LinePool ==
    {L_a, L_b_a, L_ab, L_grouped, L_cont, L_cont_ws, L_recipe, L_comment,
     L_doc, L_assign, L_blank, L_colon, L_indent, L_tab_ws}

\* Every sequence of at most n elements of S.
SeqsUpTo(S, n) == UNION {[1..k -> S] : k \in 0..n}

TextInputs == SeqsUpTo(LinePool, MaxLines)

\* Values of the variables a specification does not use.
Idle == [pc |-> "idle"]

NoModel == [targets |-> <<>>, deps |-> {}, deps_iter |-> <<>>, deps_map |-> EmptyMap]

NoFs == [exists |-> {}, dirs |-> {}]

-----------------------------------------------------------------------------
(* Specification of the line-provenance scan                               *)

ScanOnly ==
    /\ sp = Idle /\ ast = <<>> /\ root_dir = <<>> /\ fs = NoFs /\ model = NoModel
    /\ errors = <<>> /\ is_valid = TRUE /\ pc = [at |-> "scan", k |-> 0] /\ summary = None

InitScan ==
    /\ lines \in TextInputs
    /\ scan = ScanInit
    /\ ScanOnly

ScanFrame == UNCHANGED <<lines, sp, ast, root_dir, fs, model, errors, is_valid, pc, summary>>

\* The outer loop skips a blank, comment, recipe or non-header line.
ScanSkipLine ==
    /\ scan.pc = "outer" /\ scan.i < Len(lines)
    /\ LineKind(lines[scan.i + 1]) = "skip"
    /\ scan' = ScanStep(lines, scan)
    /\ ScanFrame

\* The outer loop records the names of a header line.
ScanHeaderLine ==
    /\ scan.pc = "outer" /\ scan.i < Len(lines)
    /\ LineKind(lines[scan.i + 1]) = "header"
    /\ scan' = ScanStep(lines, scan)
    /\ ScanFrame

\* The inner loop moves to the next line of a continued header.
ScanContinuation ==
    /\ scan.pc = "inner"
    /\ EndsWith(RStrip(scan.stripped), <<"\\">>)
    /\ scan.i + 1 < Len(lines)
    /\ scan' = ScanStep(lines, scan)
    /\ ScanFrame

\* The input ends in the middle of a continuation: return mapping.
ScanEndOfInput ==
    /\ scan.pc = "inner"
    /\ EndsWith(RStrip(scan.stripped), <<"\\">>)
    /\ scan.i + 1 >= Len(lines)
    /\ scan' = ScanStep(lines, scan)
    /\ ScanFrame

\* The inner loop ends: i += 1; continue.
ScanResume ==
    /\ scan.pc = "inner"
    /\ ~EndsWith(RStrip(scan.stripped), <<"\\">>)
    /\ scan' = ScanStep(lines, scan)
    /\ ScanFrame

\* The outer loop ends: return mapping.
ScanReturn ==
    /\ scan.pc = "outer" /\ ~(scan.i < Len(lines))
    /\ scan' = ScanStep(lines, scan)
    /\ ScanFrame

NextScan ==
    \/ ScanSkipLine
    \/ ScanHeaderLine
    \/ ScanContinuation
    \/ ScanEndOfInput
    \/ ScanResume
    \/ ScanReturn

SpecScan == InitScan /\ [][NextScan]_vars

\* The scan as a call that runs to completion: _compute_target_lines is
\* straight-line sequential code, so a step that can be taken is taken.
SpecScanLive == InitScan /\ [][NextScan]_vars /\ WF_vars(NextScan)

-----------------------------------------------------------------------------
(* Specification of validate_spaces                                        *)

InitSpaces ==
    /\ lines \in TextInputs
    /\ sp = SpacesInit(<<>>)
    /\ scan = Idle /\ ast = <<>> /\ root_dir = <<>> /\ fs = NoFs /\ model = NoModel
    /\ errors = <<>> /\ is_valid = TRUE /\ pc = [at |-> "spaces", k |-> 0] /\ summary = None

SpacesFrame == UNCHANGED <<lines, scan, ast, root_dir, fs, model, errors, is_valid, pc, summary>>

\* The loop body for a line that follows a backslash-terminated line.
SpacesContinuedLine ==
    /\ sp.pc = "loop" /\ sp.i < Len(lines)
    /\ IsContinued(sp.prev_line)
    /\ sp' = SpacesStep(lines, sp)
    /\ SpacesFrame

\* The loop body for any other line.
SpacesPlainLine ==
    /\ sp.pc = "loop" /\ sp.i < Len(lines)
    /\ ~IsContinued(sp.prev_line)
    /\ sp' = SpacesStep(lines, sp)
    /\ SpacesFrame

\* The loop ends: return is_valid.
SpacesReturn ==
    /\ sp.pc = "loop" /\ ~(sp.i < Len(lines))
    /\ sp' = SpacesStep(lines, sp)
    /\ SpacesFrame

NextSpaces ==
    \/ SpacesContinuedLine
    \/ SpacesPlainLine
    \/ SpacesReturn

SpecSpaces == InitSpaces /\ [][NextSpaces]_vars

-----------------------------------------------------------------------------
(* Claims about the text-level functions                                   *)

\* The findings of one category that carry line number k.
FindingsAt(errs, type, k) ==
    {j \in 1..Len(errs) : errs[j].error_type = type /\ errs[j].line_number = Some(k)}

\* The findings of one category.
FindingsOf(errs, type) == {j \in 1..Len(errs) : errs[j].error_type = type}

\* C5: when validate_spaces has returned, line i has a `space instead of tab`
\* finding iff it starts with a space and line i-1 (if any) does not end in a
\* backslash once right-trimmed; it has a `trailing spaces` finding iff it
\* differs from its right-trimmed form, continuation line or not; every finding
\* of either category carries the index of a line and that line's exact text.
C5_SpacesFindings ==
    sp.pc = "done" =>
        /\ \A k \in 0..(Len(lines) - 1) :
              LET line == lines[k + 1]
                  follows == k > 0 /\ RStrip(lines[k]) # <<>>
                             /\ RStrip(lines[k])[Len(RStrip(lines[k]))] = "\\"
              IN  /\ FindingsAt(sp.errors, "space instead of tab", k) # {}
                        <=> (line # <<>> /\ line[1] = " " /\ ~follows)
                  /\ FindingsAt(sp.errors, "trailing spaces", k) # {}
                        <=> (line # RStrip(line))
        /\ \A j \in 1..Len(sp.errors) :
              /\ sp.errors[j].error_type \in {"space instead of tab", "trailing spaces"}
              /\ \E k \in 0..(Len(lines) - 1) :
                    /\ sp.errors[j].line_number = Some(k)
                    /\ sp.errors[j].line_text = Some(lines[k + 1])

\* C5's case: a line with leading and trailing whitespace follows a
\* backslash-terminated line; it got the trailing finding and no space finding.
C5_Witness ==
    /\ sp.pc = "done"
    /\ \E k \in 1..(Len(lines) - 1) :
          /\ IsContinued(lines[k])
          /\ lines[k + 1][1] = " "
          /\ lines[k + 1] # RStrip(lines[k + 1])
          /\ FindingsAt(sp.errors, "trailing spaces", k) # {}
          /\ FindingsAt(sp.errors, "space instead of tab", k) = {}
    /\ FindingsOf(sp.errors, "space instead of tab") # {}

\* The line numbers the scan's outer loop takes as rule headers: header
\* candidates that are not continuation lines of an earlier header.
HeaderAt(ls) ==
    LET f[j \in 0..(Len(ls) - 1)] ==
            /\ LineKind(ls[j + 1]) = "header"
            /\ ~\E h \in 0..(j - 1) :
                  /\ f[h]
                  /\ \A k \in h..(j - 1) : EndsWith(Strip(ls[k + 1]), <<"\\">>)
    IN  f

\* Line number j declares name as a rule-header target.
Declares(ls, j, name) ==
    HeaderAt(ls)[j] /\ name \in Range(HeaderNames(ls[j + 1]))

\* C9: when the scan has returned, every name of the map maps to the number and
\* exact text of the first line declaring it as a rule-header target; so a name
\* no header declares is absent.
C9_FirstDeclaration ==
    scan.pc = "done" =>
        \A name \in DOMAIN scan.mapping :
            \E j \in 0..(Len(lines) - 1) :
                /\ Declares(lines, j, name)
                /\ \A h \in 0..(j - 1) : ~Declares(lines, h, name)
                /\ scan.mapping[name] = <<j, lines[j + 1]>>

\* C9's case: a name declared on two header lines kept the first, and a name
\* that only appears as a dependency is absent.
C9_Witness ==
    /\ scan.pc = "done"
    /\ \E j1, j2 \in 0..(Len(lines) - 1) : \E name \in DOMAIN scan.mapping :
          /\ j1 < j2
          /\ Declares(lines, j1, name) /\ Declares(lines, j2, name)
          /\ lines[j1 + 1] # lines[j2 + 1]
          /\ scan.mapping[name] = <<j1, lines[j1 + 1]>>
    /\ \E j \in 1..Len(lines) :
          /\ <<"c">> \in Range(Split(lines[j]))
          /\ <<"c">> \notin DOMAIN scan.mapping

\* The line numbers that continue a rule header: those after a header line h
\* with every line from h up to the one before ending in a backslash once
\* trimmed.
ContinuationLines(ls) ==
    {j \in 0..(Len(ls) - 1) :
        \E h \in 0..(j - 1) :
            /\ HeaderAt(ls)[h]
            /\ \A k \in h..(j - 1) : EndsWith(Strip(ls[k + 1]), <<"\\">>)}

\* The input ends in the middle of a continuation: its last line is a header
\* line or a continuation line, and ends in a backslash once trimmed.
EndsMidContinuation(ls) ==
    /\ ls # <<>>
    /\ (Len(ls) - 1) \in ContinuationLines(ls) \/ HeaderAt(ls)[Len(ls) - 1]
    /\ EndsWith(Strip(ls[Len(ls)]), <<"\\">>)

\* The scan only reads lines of the input, and no entry of the map comes from
\* a line that continues a header.
ScanSkipsContinuations ==
    /\ scan.pc # "done" => scan.i <= Len(lines)
    /\ scan.pc = "inner" =>
          /\ scan.i < Len(lines)
          /\ scan.stripped = Strip(lines[scan.i + 1])
    /\ \A name \in DOMAIN scan.mapping :
          scan.mapping[name][1] \notin ContinuationLines(lines)

\* Running out of input inside the inner loop returns the map as it is.
ScanStopsAtEndOfInput ==
    (/\ scan.pc = "inner"
     /\ EndsWith(RStrip(scan.stripped), <<"\\">>)
     /\ scan.i + 1 >= Len(lines))
        => (scan'.pc = "done" /\ scan'.mapping = scan.mapping)

\* C11: for every finite line sequence the scan of _compute_target_lines
\* terminates; the lines continuing a backslash-terminated rule header are
\* skipped and never contribute an entry to the map; and when the input ends in
\* the middle of a continuation the scan stops, reading no line past the end,
\* and returns the map collected so far.
C11_ScanTerminatesSkippingContinuations ==
    /\ <>(scan.pc = "done")
    /\ [](scan.pc = "done" => [](scan.pc = "done"))
    /\ []ScanSkipsContinuations
    /\ [][ScanStopsAtEndOfInput]_vars

\* C11's case: the scan has returned on an input that ends in the middle of a
\* continuation, with the name of the last header in the map, and an earlier
\* continuation line that reads as a header left a name out of the map.
C11_Witness ==
    /\ scan.pc = "done"
    /\ EndsMidContinuation(lines)
    /\ HeaderAt(lines)[Len(lines) - 1]
    /\ \E name \in DOMAIN scan.mapping :
          scan.mapping[name] = <<Len(lines) - 1, lines[Len(lines)]>>
    /\ \E j \in ContinuationLines(lines) :
          /\ LineKind(lines[j + 1]) = "header"
          /\ HeaderNames(lines[j + 1]) # <<>>
          /\ \A k \in 1..Len(HeaderNames(lines[j + 1])) :
                HeaderNames(lines[j + 1])[k] \notin DOMAIN scan.mapping

-----------------------------------------------------------------------------
(* validate and main                                                       *)

TEXT_VALIDATORS == <<"validate_spaces">>

TARGET_VALIDATORS ==
    <<"validate_orphan_targets", "validate_target_comments",
      "validate_missing_rules", "validate_multiple_targets_colon">>

\* The call validate makes for one validator, by the if/elif chain on its
\* identity, on the findings list errs.
CallValidator(name, errs) ==
    CASE name = "validate_spaces" -> validate_spaces(lines, errs)
      [] name = "validate_target_comments" -> validate_target_comments(model.targets, errs)
      [] name = "validate_orphan_targets" ->
            validate_orphan_targets(model.targets, model.deps, errs)
      [] name = "validate_missing_rules" ->
            validate_missing_rules(model.targets, model.deps_iter, model.deps_map,
                                   root_dir, fs, errs)
      [] name = "validate_multiple_targets_colon" ->
            validate_multiple_targets_colon(model.targets, errs)
      [] name = "validate_directory_order_only_dependencies" ->
            validate_directory_order_only_dependencies(model.targets, root_dir, fs, errs)

\* A plausible slip: `is_valid and validator(...)`, which skips the validator
\* once the verdict is false.
RunValidatorShortCircuit(name, valid, errs) ==
    IF ~valid THEN [is_valid |-> FALSE, errors |-> errs]
    ELSE CallValidator(name, errs)

\* is_valid = validator(...) and is_valid: the validator runs first.
RunValidator(name, valid, errs) ==
    LET r == CallValidator(name, errs)
    IN  [is_valid |-> r.is_valid /\ valid, errors |-> r.errors]

\* Every order in which a for loop may visit the set S.
Orders(S) ==
    {o \in [1..Cardinality(S) -> S] : \A x, y \in DOMAIN o : x # y => o[x] # o[y]}

At(at, k) == [at |-> at, k |-> k]

\* main: targets, deps, deps_map = parse_targets(ast, makefile_lines), then
\* errors = [] and the call of validate, which sets is_valid = True.
ParseTargets ==
    /\ pc.at = "parse"
    /\ LET r == parse_targets(ast, lines)
       IN  \E o \in Orders(r.deps) :
              model' = [targets |-> r.targets, deps |-> r.deps,
                        deps_iter |-> o, deps_map |-> r.deps_map]
    /\ errors' = <<>>
    /\ is_valid' = TRUE
    /\ pc' = At("text", 1)
    /\ UNCHANGED <<lines, scan, sp, ast, root_dir, fs, summary>>

\* One turn of `for validator in TEXT_VALIDATORS`.
RunTextValidator ==
    /\ pc.at = "text"
    /\ LET r == RunValidator(TEXT_VALIDATORS[pc.k], is_valid, errors)
       IN  is_valid' = r.is_valid /\ errors' = r.errors
    /\ pc' = IF pc.k < Len(TEXT_VALIDATORS) THEN At("text", pc.k + 1) ELSE At("target", 1)
    /\ UNCHANGED <<lines, scan, sp, ast, root_dir, fs, model, summary>>

\* One turn of `for validator in TARGET_VALIDATORS`.
RunTargetValidator ==
    /\ pc.at = "target"
    /\ LET r == RunValidator(TARGET_VALIDATORS[pc.k], is_valid, errors)
       IN  is_valid' = r.is_valid /\ errors' = r.errors
    /\ pc' = IF pc.k < Len(TARGET_VALIDATORS) THEN At("target", pc.k + 1)
             ELSE At("directory", 0)
    /\ UNCHANGED <<lines, scan, sp, ast, root_dir, fs, model, summary>>

\* The directory check, and validate's return.
RunDirectoryCheck ==
    /\ pc.at = "directory"
    /\ LET r == RunValidator("validate_directory_order_only_dependencies",
                             is_valid, errors)
       IN  is_valid' = r.is_valid /\ errors' = r.errors
    /\ pc' = At("returned", 0)
    /\ UNCHANGED <<lines, scan, sp, ast, root_dir, fs, model, summary>>

\* main: validate returned false; summarize and return 1.
MainFailure ==
    /\ pc.at = "returned" /\ ~is_valid
    /\ summary' = Some(summarize_errors(errors))
    /\ pc' = At("exit", 1)
    /\ UNCHANGED <<lines, scan, sp, ast, root_dir, fs, model, errors, is_valid>>

\* main: validate returned true; return 0.
MainSuccess ==
    /\ pc.at = "returned" /\ is_valid
    /\ pc' = At("exit", 0)
    /\ UNCHANGED <<lines, scan, sp, ast, root_dir, fs, model, errors, is_valid, summary>>

-----------------------------------------------------------------------------
(* Inputs of the pipeline specification                                    *)

\* The longest token stream the pipeline specification draws.
MaxTokens == 2

N_a == <<"a">>
N_b == <<"b">>
N_d == <<"d">>
N_m == <<"m">>
N_star == <<"*">>
N_abs == <<"/", "d">>

M_a_m == <<"a", ":", " ", "m">>                        \* a: m
M_ab_d == <<"a", " ", "b", ":", " ", "d">>             \* a b: d
M_grouped == <<"a", " ", "b", " ", "&", ":", " ", "d">> \* a b &: d
M_b_oo == <<"b", ":", " ", "|", " ", "d">>             \* b: | d
M_colon == <<":", "a", " ", "b", ":", " ", "m">>       \* :a b: m
M_recipe_sp == <<" ", "b", " ">>                       \*  b  (spaces for a tab)

\* The Makefiles: none, one header (one with a badly indented recipe), and a
\* name declared on two lines.
Makefiles ==
    {<<>>, <<M_a_m, M_recipe_sp>>, <<M_ab_d>>, <<M_grouped>>, <<M_colon>>,
     <<M_ab_d, M_b_oo>>, <<M_b_oo, M_ab_d>>}

Doc_none == <<>>
Doc_plain == <<"x">>
Doc_final == FINAL
Doc_final_inside == <<"x", " ">> \o FINAL
Doc_final_cut == <<"[", "F", "I", "N", "A", "L">>

Token(target, all_targets, docs, grouped, deps_list, order_only_list) ==
    <<"target", [target |-> target, all_targets |-> all_targets, docs |-> docs,
                 grouped |-> grouped, deps |-> <<deps_list, order_only_list>>]>>

\* The token stream's records: rules like those of the Makefiles, a rule with
\* an empty co-declared list, a rule that uses another as a prerequisite, and a
\* record that is no target.
TokenPool ==
    {Token(N_a, None, Doc_none, None, <<N_m, N_d>>, <<>>),
     Token(N_a, Some(<<N_a, N_b>>), Doc_final, Some(TRUE), <<N_d, N_star>>, <<>>),
     Token(N_a, Some(<<N_a, N_b>>), Doc_plain, Some(FALSE), <<N_d, N_m>>, <<N_d>>),
     Token(N_b, None, Doc_final_inside, None, <<>>, <<N_abs>>),
     Token(N_b, Some(<<>>), Doc_none, None, <<N_m>>, <<>>),
     Token(N_b, None, Doc_final_cut, None, <<N_a>>, <<>>),
     <<"text", [target |-> N_a, all_targets |-> None, docs |-> Doc_none,
                grouped |-> None, deps |-> <<<<N_m>>, <<>>>>]>>}

\* The root directory and the filesystem: nothing under the root r; d, * and
\* /d directories; d a file and m present; no root and d a directory of the
\* working directory.
Environments ==
    {[root_dir |-> <<"r">>, fs |-> NoFs],
     [root_dir |-> <<"r">>,
      fs |-> [exists |-> {<<"r", "/", "d">>, <<"r", "/", "*">>, N_abs},
              dirs |-> {<<"r", "/", "d">>, <<"r", "/", "*">>, N_abs}]],
     [root_dir |-> <<"r">>,
      fs |-> [exists |-> {<<"r", "/", "d">>, <<"r", "/", "m">>}, dirs |-> {}]],
     [root_dir |-> <<>>, fs |-> [exists |-> {N_d}, dirs |-> {N_d}]]}

Init ==
    /\ lines \in Makefiles
    /\ ast \in SeqsUpTo(TokenPool, MaxTokens)
    /\ \E env \in Environments : root_dir = env.root_dir /\ fs = env.fs
    /\ model = NoModel
    /\ errors = <<>>
    /\ is_valid = TRUE
    /\ summary = None
    /\ pc = At("parse", 0)
    /\ scan = Idle /\ sp = Idle

Next ==
    \/ ParseTargets
    \/ RunTextValidator
    \/ RunTargetValidator
    \/ RunDirectoryCheck
    \/ MainFailure
    \/ MainSuccess

Spec == Init /\ [][Next]_vars

-----------------------------------------------------------------------------
(* Specification of summarize_errors on findings built directly            *)

\* The longest findings list the summary specification draws.
MaxFindings == 4

\* Findings as the tests build them: a category, an empty message, no line
\* text, and a line number or none.
FindingPool ==
    {_create_error(type, <<>>, n, None) :
        type \in {"space instead of tab", "missing rule", "orphan target"},
        n \in {None, Some(0), Some(1), Some(2)}}

InitSummary ==
    /\ errors \in SeqsUpTo(FindingPool, MaxFindings)
    /\ summary = None
    /\ pc = [at |-> "summarize", k |-> 0]
    /\ lines = <<>> /\ scan = Idle /\ sp = Idle /\ ast = <<>> /\ root_dir = <<>>
    /\ fs = NoFs /\ model = NoModel /\ is_valid = TRUE

Summarize ==
    /\ pc.at = "summarize"
    /\ summary' = Some(summarize_errors(errors))
    /\ pc' = [at |-> "summarized", k |-> 0]
    /\ UNCHANGED <<lines, scan, sp, ast, root_dir, fs, model, errors, is_valid>>

NextSummary == Summarize

SpecSummary == InitSummary /\ [][NextSummary]_vars

\* The line number of the first finding of a category that has one.
FirstNumbered(errs, type) ==
    LET numbered == {j \in 1..Len(errs) :
                        errs[j].error_type = type /\ errs[j].line_number # None}
    IN  IF numbered = {} THEN None ELSE errs[Min(numbered)].line_number

\* The position at which a category first appears.
FirstAppearance(errs, type) == Min({j \in 1..Len(errs) : errs[j].error_type = type})

\* The pieces of a summary listing the categories in the order cats.
ExpectedSummary(errs, cats) ==
    LET part(k) == <<cats[k], ": ">> \o ToDecimal(Cardinality(FindingsOf(errs, cats[k])))
        upto[k \in 0..Len(cats)] ==
            IF k = 0 THEN <<>>
            ELSE upto[k - 1] \o (IF k = 1 THEN <<>> ELSE <<", ">>) \o part(k)
    IN  upto[Len(cats)]

\* C6: the summary lists every category present exactly once, as the category,
\* ": " and the number of its findings, joined by ", ", in an order where a
\* category whose first numbered finding has the smaller line number comes
\* first, the categories with no numbered finding come last, and those come in
\* order of first appearance.
C6_SummaryOrder ==
    pc.at = "summarized" =>
        LET present == {errors[j].error_type : j \in 1..Len(errors)}
            n == Cardinality(present)
        IN  \E cats \in [1..n -> present] :
                /\ \A x, y \in 1..n : x # y => cats[x] # cats[y]
                /\ summary = Some(ExpectedSummary(errors, cats))
                /\ \A x, y \in 1..n : x < y =>
                      LET kx == FirstNumbered(errors, cats[x])
                          ky == FirstNumbered(errors, cats[y])
                      IN  /\ kx = None => ky = None
                          /\ (kx # None /\ ky # None) => kx[1] <= ky[1]
                          /\ (kx = None /\ ky = None) =>
                                FirstAppearance(errors, cats[x])
                                    < FirstAppearance(errors, cats[y])

\* C6's case: three categories; one appears first without a line number and is
\* numbered later, one is numbered and one is never numbered; a count above 1.
C6_Witness ==
    /\ pc.at = "summarized"
    /\ Len(errors) = MaxFindings
    /\ errors[1].error_type = "missing rule" /\ errors[1].line_number = None
    /\ FirstNumbered(errors, "missing rule") = Some(1)
    /\ FirstNumbered(errors, "space instead of tab") = Some(0)
    /\ FirstNumbered(errors, "orphan target") = None
    /\ summary = Some(<<"space instead of tab", ": ", "1", ", ",
                        "missing rule", ": ", "2", ", ",
                        "orphan target", ": ", "1">>)

-----------------------------------------------------------------------------
(* Claims about parse_targets, the validators and validate                 *)

\* The provenance of a name read off the source lines: the number and text of
\* the first line declaring it, or (None, None).
ProvenanceOf(name) ==
    LET js == {j \in 0..(Len(lines) - 1) : Declares(lines, j, name)}
    IN  IF js = {} THEN <<None, None>>
        ELSE <<Some(Min(js)), Some(lines[Min(js) + 1])>>

\* validate has run every check.
Returned == pc.at \in {"returned", "exit"}

\* The records of the model that carry a name.
RecordsNamed(n) == {k \in 1..Len(model.targets) : model.targets[k].name = n}

TargetNames == {model.targets[k].name : k \in 1..Len(model.targets)}

\* The findings of a category with a message.
FindingsWith(type, message) ==
    {j \in 1..Len(errors) : errors[j].error_type = type /\ errors[j].message = message}

\* C1: when validate returns, the verdict is true iff the findings list, empty
\* at the call, is still empty.
C1_VerdictIffNoFindings ==
    pc.at = "returned" => (is_valid <=> errors = <<>>)

\* The six checks in the order of the claim.
CheckOrder ==
    <<"validate_spaces", "validate_orphan_targets", "validate_target_comments",
      "validate_missing_rules", "validate_multiple_targets_colon",
      "validate_directory_order_only_dependencies">>

\* The findings a check produces when run alone on the input.
Alone(name) == CallValidator(name, <<>>).errors

\* The number of checks validate has run at its position.
ChecksRun ==
    CASE pc.at = "text" -> pc.k - 1
      [] pc.at = "target" -> Len(TEXT_VALIDATORS) + pc.k - 1
      [] pc.at = "directory" -> Len(CheckOrder) - 1
      [] OTHER -> Len(CheckOrder)

\* C2: at every position of validate the findings list is the concatenation,
\* in the claim's order, of what each check run so far produces alone; at the
\* return it is the concatenation of all six.
C2_FindingsConcatenated ==
    pc.at # "parse" =>
        LET upto[k \in 0..Len(CheckOrder)] ==
                IF k = 0 THEN <<>> ELSE upto[k - 1] \o Alone(CheckOrder[k])
        IN  errors = upto[ChecksRun]

\* C2's case: the first, a middle and the last check all reported findings.
C2_Witness ==
    /\ pc.at = "returned"
    /\ Alone("validate_spaces") # <<>>
    /\ Alone("validate_orphan_targets") # <<>>
    /\ Alone("validate_missing_rules") # <<>>
    /\ Alone("validate_directory_order_only_dependencies") # <<>>
    /\ Len(errors) = Len(Alone("validate_spaces")) + Len(Alone("validate_orphan_targets"))
                     + Len(Alone("validate_target_comments"))
                     + Len(Alone("validate_missing_rules"))
                     + Len(Alone("validate_multiple_targets_colon"))
                     + Len(Alone("validate_directory_order_only_dependencies"))

\* The prerequisite names with neither a rule nor a path behind them.
MissingDeps ==
    {d \in model.deps :
        /\ d \notin TargetNames
        /\ (IF root_dir = <<>> \/ d[1] = "/" THEN d
            ELSE root_dir \o <<"/">> \o d) \notin fs.exists}

\* The requesters of a prerequisite name.
Requesters(d) == IF d \in DOMAIN model.deps_map THEN model.deps_map[d] ELSE {}

\* C3: when validate has run the missing-rule check, every missing
\* prerequisite d has exactly one `missing rule` finding per requester in
\* deps_map[d], carrying the number and text of the requester's rule header;
\* there is no other `missing rule` finding; and with a missing prerequisite
\* the verdict is false.
C3_MissingRulePerRequester ==
    Returned =>
        /\ \A d \in MissingDeps : \A p \in Requesters(d) :
              \E j \in 1..Len(errors) :
                  /\ FindingsWith("missing rule", <<"No rule to make target", d, p>>) = {j}
                  /\ <<errors[j].line_number, errors[j].line_text>> = ProvenanceOf(p)
        /\ \A j \in FindingsOf(errors, "missing rule") :
              \E d \in MissingDeps : \E p \in Requesters(d) :
                  errors[j].message = <<"No rule to make target", d, p>>
        /\ MissingDeps # {} => ~is_valid

\* C3's case: a missing prerequisite with two requesters declared on two
\* lines, next to a prerequisite that exists and one that is a target.
C3_Witness ==
    /\ Returned
    /\ \E d \in MissingDeps :
          /\ Cardinality(Requesters(d)) = 2
          /\ \E p, q \in Requesters(d) :
                /\ ProvenanceOf(p)[1] # None /\ ProvenanceOf(q)[1] # None
                /\ ProvenanceOf(p)[1] # ProvenanceOf(q)[1]
          /\ Cardinality(FindingsOf(errors, "missing rule")) = 2
    /\ model.deps \ MissingDeps # {}

\* C4: a name declared once and in no prerequisite list has one `orphan target`
\* finding, with its provenance, iff its documentation lacks "[FINAL]"; a name
\* in deps has none.
C4_OrphanUnlessFinal ==
    Returned =>
        \A n \in TargetNames :
            LET found == FindingsWith("orphan target", <<"is orphan", n>>)
            IN  /\ n \in model.deps => found = {}
                /\ (n \notin model.deps /\ Cardinality(RecordsNamed(n)) = 1) =>
                      LET t == model.targets[CHOOSE k \in RecordsNamed(n) : TRUE]
                          marked == \E k \in 0..(Len(t.doc) - Len(FINAL)) :
                                        \A c \in 1..Len(FINAL) : t.doc[k + c] = FINAL[c]
                      IN  /\ marked => found = {}
                          /\ ~marked =>
                                /\ Cardinality(found) = 1
                                /\ \A j \in found :
                                      <<errors[j].line_number, errors[j].line_text>>
                                          = ProvenanceOf(n)

\* C4's case: of two names declared once and used by no rule, the one whose
\* documentation holds the marker inside other text has no finding, and the
\* other, with a header line, has one.
C4_Witness ==
    /\ Returned
    /\ \E n1, n2 \in TargetNames \ model.deps :
          /\ Cardinality(RecordsNamed(n1)) = 1 /\ Cardinality(RecordsNamed(n2)) = 1
          /\ \E k \in RecordsNamed(n1) :
                Contains(model.targets[k].doc, FINAL) /\ model.targets[k].doc # FINAL
          /\ FindingsWith("orphan target", <<"is orphan", n1>>) = {}
          /\ FindingsWith("orphan target", <<"is orphan", n2>>) # {}
          /\ ProvenanceOf(n2)[1] # None

\* The text of a header line before its first ":" or "&:".
TextBeforeFirstColon(line) ==
    LET c == Min({k \in 1..Len(line) : line[k] = ":"})
    IN  IF c > 1 /\ line[c - 1] = "&" THEN SubSeq(line, 1, c - 2)
        ELSE SubSeq(line, 1, c - 1)

\* The text of a header line before the first ":" or "&:" that follows at
\* least one character.
TextBeforeFirstColonAfterStart(line) ==
    LET c == Min({k \in 2..Len(line) : line[k] = ":"})
    IN  IF c > 2 /\ line[c - 1] = "&" THEN SubSeq(line, 1, c - 2)
        ELSE SubSeq(line, 1, c - 1)

\* The `multiple targets with colon` findings that carry a provenance.
MultiFindingsAt(number, text) ==
    {j \in FindingsOf(errors, "multiple targets with colon") :
        errors[j].line_number = number /\ errors[j].line_text = text}

\* C7 as stated: a record has a `multiple targets with colon` finding iff it is
\* not flagged grouped and the text of its header line before the first ":" or
\* "&:" lists more than one name.  Records sharing a header line carry equal
\* findings, so the findings of a line are counted against its records.
C7_AsStated ==
    Returned =>
        /\ \A k \in 1..Len(model.targets) :
              LET t == model.targets[k]
                  due == {r \in 1..Len(model.targets) :
                            /\ model.targets[r].line_number = t.line_number
                            /\ model.targets[r].line_text = t.line_text
                            /\ ~model.targets[r].grouped
                            /\ t.line_text # None
                            /\ Len(Split(TextBeforeFirstColon(t.line_text[1]))) > 1}
              IN  Cardinality(MultiFindingsAt(t.line_number, t.line_text))
                      = Cardinality(due)

\* C7 amended: the name portion is the text before the first ":" or "&:" that
\* follows at least one character of the line.
C7_MultiTargetUnlessGrouped ==
    Returned =>
        /\ \A k \in 1..Len(model.targets) :
              LET t == model.targets[k]
                  due == {r \in 1..Len(model.targets) :
                            /\ model.targets[r].line_number = t.line_number
                            /\ model.targets[r].line_text = t.line_text
                            /\ ~model.targets[r].grouped
                            /\ t.line_text # None
                            /\ Len(Split(TextBeforeFirstColonAfterStart(t.line_text[1]))) > 1}
              IN  Cardinality(MultiFindingsAt(t.line_number, t.line_text))
                      = Cardinality(due)
        /\ \A j \in FindingsOf(errors, "multiple targets with colon") :
              \E k \in 1..Len(model.targets) :
                  /\ model.targets[k].line_number = errors[j].line_number
                  /\ model.targets[k].line_text = errors[j].line_text

\* C7's case: of the records sharing one header line that lists two names,
\* as many are flagged grouped as are not; the flagged ones have no finding and
\* the others have one each.
C7_Witness ==
    /\ Returned
    /\ lines \in {<<M_grouped>>, <<M_ab_d>>}
    /\ \A k \in 1..Len(model.targets) : model.targets[k].line_text = Some(lines[1])
    /\ \E k \in 1..Len(model.targets) : model.targets[k].grouped
    /\ LET plain == {k \in 1..Len(model.targets) : ~model.targets[k].grouped}
       IN  /\ plain # {}
           /\ Cardinality(plain) * 2 = Len(model.targets)
           /\ Cardinality(FindingsOf(errors, "multiple targets with colon"))
                 = Cardinality(plain)

\* A prerequisite name free of the metacharacters that resolves to an existing
\* directory under the root.
IsPlainDirectory(d) ==
    /\ d # <<>>
    /\ \A k \in 1..Len(d) : d[k] \notin {"$", "*", "?", "[", "]", "%", "(", ")"}
    /\ _resolve_filesystem_path(d, root_dir) \in fs.dirs

\* C8: for a target name n and a plain directory d, a `directory dependency
\* not order-only` finding for d on n exists iff a record of n lists d as a
\* normal prerequisite and not as an order-only one; the finding carries the
\* provenance of n.
C8_DirectoryNotOrderOnly ==
    Returned =>
        \A n \in TargetNames :
            \A d \in UNION {Range(model.targets[k].deps)
                            \cup Range(model.targets[k].order_only_deps) :
                                k \in RecordsNamed(n)} :
                IsPlainDirectory(d) =>
                    LET found == FindingsWith("directory dependency not order-only",
                                              <<"Directory dependency", d, n>>)
                        due == {k \in RecordsNamed(n) :
                                   /\ \E x \in 1..Len(model.targets[k].deps) :
                                         model.targets[k].deps[x] = d
                                   /\ \A x \in 1..Len(model.targets[k].order_only_deps) :
                                         model.targets[k].order_only_deps[x] # d}
                    IN  /\ found # {} <=> due # {}
                        /\ \A j \in found :
                              <<errors[j].line_number, errors[j].line_text>>
                                  = ProvenanceOf(n)

\* C8's case: a directory that is a normal prerequisite of one target has a
\* finding with the target's header line; a directory that another target
\* lists only as order-only has none.
C8_Witness ==
    /\ Returned
    /\ \E k1, k2 \in 1..Len(model.targets) :
          LET t1 == model.targets[k1]
              t2 == model.targets[k2]
          IN  /\ t1.name # t2.name
              /\ Cardinality(RecordsNamed(t2.name)) = 1
              /\ \E d1 \in Range(t1.deps) \ Range(t1.order_only_deps) :
                    /\ IsPlainDirectory(d1)
                    /\ FindingsWith("directory dependency not order-only",
                                    <<"Directory dependency", d1, t1.name>>) # {}
              /\ \E d2 \in Range(t2.order_only_deps) :
                    /\ IsPlainDirectory(d2)
                    /\ FindingsWith("directory dependency not order-only",
                                    <<"Directory dependency", d2, t2.name>>) = {}
              /\ ProvenanceOf(t1.name)[1] # None

\* The names a token declares: its co-declared list if it has one, else its
\* nominal name.
EffectiveNames(data) ==
    IF data.all_targets # None THEN data.all_targets[1] ELSE <<data.target>>

\* The number of records due to the first k tokens of the stream.
RecordsBefore(k) ==
    LET upto[x \in 0..Len(ast)] ==
            IF x = 0 THEN 0
            ELSE upto[x - 1] + (IF ast[x][1] = "target"
                                THEN Len(EffectiveNames(ast[x][2])) ELSE 0)
    IN  upto[k]

\* C10: once parse_targets has returned, the records are, for each target
\* token in stream order and each of its effective names in order, one record
\* with that name, the token's documentation and grouped flag, the provenance
\* of that name and the token's two prerequisite lists; nothing else is a
\* record, so a non-target token has none.
C10_OneRecordPerName ==
    pc.at # "parse" =>
        /\ Len(model.targets) = RecordsBefore(Len(ast))
        /\ \A x \in 1..Len(ast) :
              ast[x][1] = "target" =>
                  LET data == ast[x][2]
                      names == EffectiveNames(data)
                  IN  \A y \in 1..Len(names) :
                          LET t == model.targets[RecordsBefore(x - 1) + y]
                          IN  /\ t.name = names[y]
                              /\ t.doc = data.docs
                              /\ t.grouped = (data.grouped = Some(TRUE))
                              /\ <<t.line_number, t.line_text>> = ProvenanceOf(names[y])
                              /\ t.deps = data.deps[1]
                              /\ t.order_only_deps = data.deps[2]

\* C10's case: a non-target token and a token with two co-declared names, whose
\* two records share the prerequisite lists and differ in provenance.
C10_Witness ==
    /\ pc.at = "text"
    /\ \E x, y \in 1..Len(ast) :
          /\ ast[x][1] # "target"
          /\ ast[y][1] = "target"
          /\ ast[y][2].all_targets = Some(<<N_a, N_b>>)
    /\ Len(model.targets) = Len(<<N_a, N_b>>)
    /\ model.targets[1].deps = model.targets[Len(model.targets)].deps
    /\ model.targets[1].deps # <<>>
    /\ model.targets[1].name # model.targets[Len(model.targets)].name
    /\ model.targets[1].line_number # None
    /\ model.targets[Len(model.targets)].line_number # None
    /\ model.targets[1].line_number # model.targets[Len(model.targets)].line_number

=============================================================================
